---- MODULE Spec2Model ----
(***************************************************************************)
(* Model of bioconda_utils/bot/events.py: the handlers of the GitHub       *)
(* check_suite and check_run events (the check-run orchestration) with the *)
(* platform API gateway and the lint scheduler they call, and the          *)
(* extraction of bot commands from issue comments; and of                  *)
(* Renderer.render_to_file of docs/source/generate_docs.py.                *)
(*                                                                         *)
(* Text is a sequence of one-character strings.  An event is a record      *)
(* [type, data] whose data maps the slash-separated paths the handlers     *)
(* read to their values; a path that is not in DOMAIN data is absent.      *)
(***************************************************************************)
EXTENDS Integers, Sequences, FiniteSets, TLC

VARIABLES
    deliveries,   \* one record per webhook delivery: its event and its handler's state
    check_runs,   \* the platform's check runs, created by create_check_run; id = index
    webhooks,     \* check_run events the platform has still to deliver to the bot
    comment,      \* the issue comment being handled and its handler's state
    docs          \* the file Renderer.render_to_file writes, and its last call

vars == <<deliveries, check_runs, webhooks, comment, docs>>

(***************************************************************************)
(* Bounds of the model.                                                    *)
(***************************************************************************)
\* deliveries handled in one behaviour (external, platform-made and repeated)
MaxDeliveries == 2
\* length of the changed-files list the gateway returns for a pull request
MaxFiles == 3
\* lines of a comment body
MaxLines == 3
\* deliveries of events with a missing path handled in one behaviour
MaxEnvelopes == 1
\* issue comments handled one after the other in one behaviour, and the
\* lines of the first of them
MaxComments == 3
MaxFirstLines == 1
\* characters of a rendering
MaxContent == 2
\* length of the changed-files list when the recipes alone are examined
MaxChanged == 3

(***************************************************************************)
(* Configuration and data the handlers see.                                *)
(***************************************************************************)
\* config.APP_ID, the application id of the bot
APP_ID == 1

\* application ids carried by check_run/app/id
AppIds == {APP_ID, APP_ID + 1}

\* head SHAs of the check suites (the check runs that exist have "sha_b")
HeadShas == {"sha_a"}

\* pull_requests lists of a check suite
PrLists == { <<>>, <<[number |-> 1]>> }

\* the check runs of the repository that existed before the behaviour starts
ExternalRuns == { [id |-> 100, head_sha |-> "sha_b"] }

INSTALLATION == "inst"

MetaYamlSuffix == <<"/","m","e","t","a",".","y","a","m","l">>

RecipeFoo == <<"r","e","c","i","p","e","s","/","f","o","o","/","m","e","t","a",".","y","a","m","l">>
RecipeBar == <<"r","e","c","i","p","e","s","/","b","a","r","/","m","e","t","a",".","y","a","m","l">>
BuildFoo  == <<"r","e","c","i","p","e","s","/","f","o","o","/","b","u","i","l","d",".","s","h">>

FileNames == {RecipeFoo, RecipeBar, BuildFoo}

\* sequences without repetition ("filenames are unique per diff") of length <= n
RECURSIVE UniqueSeqs(_, _)
UniqueSeqs(S, n) ==
    IF n = 0 THEN { <<>> }
    ELSE LET shorter == UniqueSeqs(S, n - 1)
         IN  shorter \cup
             UNION { { Append(s, x) : x \in S \ { s[i] : i \in 1..Len(s) } } :
                     s \in { t \in shorter : Len(t) = n - 1 } }

RECURSIVE AsFileItems(_)
AsFileItems(s) ==
    IF s = <<>> THEN <<>> ELSE <<[filename |-> Head(s)]>> \o AsFileItems(Tail(s))

\* the responses of get_pr_modified_files: a sequence of {filename}
FileLists == { AsFileItems(s) : s \in UniqueSeqs(FileNames, MaxFiles) }

\* the response of get_prs for a pull request that exists
PullRequest(n) ==
    [number |-> n, head |-> [user |-> [login |-> "user"],
                             repo |-> [name |-> "repo"],
                             ref  |-> "branch"]]


(***************************************************************************)
(* Events.                                                                 *)
(***************************************************************************)
CheckSuiteEvent(action, sha, prs) ==
    [type |-> "check_suite",
     data |-> ("action" :> action @@
               "check_suite/head_sha" :> sha @@
               "check_suite/pull_requests" :> prs @@
               "installation/id" :> INSTALLATION)]

\* a check_suite event whose payload carries no pull_requests key
CheckSuiteEventNoPrs(action, sha) ==
    [type |-> "check_suite",
     data |-> ("action" :> action @@
               "check_suite/head_sha" :> sha @@
               "installation/id" :> INSTALLATION)]

CheckRunEvent(action, app, id, sha, prs) ==
    [type |-> "check_run",
     data |-> ("action" :> action @@
               "check_run/id" :> id @@
               "check_run/head_sha" :> sha @@
               "check_run/check_suite/pull_requests" :> prs @@
               "check_run/app/id" :> app @@
               "installation/id" :> INSTALLATION)]

CheckSuiteActions == {"requested", "rerequested", "completed"}
CheckRunActions   == {"created", "rerequested", "completed"}

\* the events that reach the bot from outside: any check suite activity, and
\* any activity on a check run, of this application or another
ExternalEvents ==
    { CheckSuiteEvent(a, s, prs) : a \in CheckSuiteActions, s \in HeadShas, prs \in PrLists }
    \cup { CheckSuiteEventNoPrs(a, s) : a \in CheckSuiteActions, s \in HeadShas }
    \cup { CheckRunEvent(a, app, r.id, r.head_sha, prs) :
             a \in CheckRunActions, app \in AppIds, r \in ExternalRuns, prs \in PrLists }

\* Event.get(path): the value at the path; Has(e, path) is FALSE where get
\* raises KeyError
Has(e, path) == path \in DOMAIN e.data
Get(e, path) == e.data[path]
\* Event.get(path, default)
GetDefault(e, path, default) == IF Has(e, path) THEN e.data[path] ELSE default


(***************************************************************************)
(* Text: str.lower, str.split, str.splitlines and BOT_ALIAS_RE.match on    *)
(* sequences of characters.                                                *)
(***************************************************************************)
UpperCase == <<"A","B","C","D","E","F","G","H","I","J","K","L","M",
               "N","O","P","Q","R","S","T","U","V","W","X","Y","Z">>
LowerCase == <<"a","b","c","d","e","f","g","h","i","j","k","l","m",
               "n","o","p","q","r","s","t","u","v","w","x","y","z">>

LowerChar(c) ==
    IF \E k \in 1..Len(UpperCase) : UpperCase[k] = c
    THEN LowerCase[CHOOSE k \in 1..Len(UpperCase) : UpperCase[k] = c]
    ELSE c

\* str.lower()
Lower(s) == [k \in 1..Len(s) |-> LowerChar(s[k])]

WhiteSpace == {" ", "\t", "\n", "\r"}
LineBreaks == {"\n", "\r"}

\* str.split(): the maximal runs of characters that are not white space
RECURSIVE SplitFrom(_, _, _)
SplitFrom(s, k, word) ==
    IF k > Len(s)
    THEN IF word = <<>> THEN <<>> ELSE <<word>>
    ELSE IF s[k] \in WhiteSpace
    THEN IF word = <<>> THEN SplitFrom(s, k + 1, <<>>)
         ELSE <<word>> \o SplitFrom(s, k + 1, <<>>)
    ELSE SplitFrom(s, k + 1, Append(word, s[k]))

Split(s) == SplitFrom(s, 1, <<>>)

\* str.splitlines(): the lines between line breaks (\r\n is one break), with
\* no empty last line after a final break
RECURSIVE SplitLinesFrom(_, _, _)
SplitLinesFrom(s, k, line) ==
    IF k > Len(s)
    THEN IF line = <<>> THEN <<>> ELSE <<line>>
    ELSE IF s[k] \in LineBreaks
    THEN LET skip == IF s[k] = "\r" /\ k < Len(s) /\ s[k + 1] = "\n" THEN 2 ELSE 1
         IN  <<line>> \o SplitLinesFrom(s, k + skip, <<>>)
    ELSE SplitLinesFrom(s, k + 1, Append(line, s[k]))

SplitLines(s) == SplitLinesFrom(s, 1, <<>>)

\* whether the characters of s from position k on start with pattern p,
\* letters compared without regard to case (re.IGNORECASE)
MatchesAt(s, k, p) ==
    /\ k + Len(p) - 1 <= Len(s)
    /\ \A j \in 1..Len(p) : LowerChar(s[k + j - 1]) = LowerChar(p[j])

AliasHead == <<"@","b","i","o","c","o","n","d","a">>
AliasTail == <<"b","o","t">>

\* r'@bioconda[- ]?bot' matched at position k
AliasAt(s, k) ==
    /\ MatchesAt(s, k, AliasHead)
    /\ \/ /\ k + Len(AliasHead) <= Len(s)
          /\ s[k + Len(AliasHead)] \in {"-", " "}
          /\ MatchesAt(s, k + Len(AliasHead) + 1, AliasTail)
       \/ MatchesAt(s, k + Len(AliasHead), AliasTail)

\* BOT_ALIAS_RE.search(line): the alias anywhere in the line
BotAliasSearch(line) == \E k \in 1..Len(line) : AliasAt(line, k)

\* BOT_ALIAS_RE.match(line): the alias at the start of the line
BotAliasMatch(line) == AliasAt(line, 1)

\* line.lower().split()[1:]
CommandOf(line) ==
    LET words == Split(Lower(line))
    IN  IF words = <<>> THEN <<>> ELSE Tail(words)

\* the list comprehension of comment_created
RECURSIVE CommandsOfLines(_)
CommandsOfLines(lines) ==
    IF lines = <<>> THEN <<>>
    ELSE IF BotAliasMatch(Head(lines))
         THEN <<CommandOf(Head(lines))>> \o CommandsOfLines(Tail(lines))
         ELSE CommandsOfLines(Tail(lines))

\* the extraction appending to one list of commands kept from comment to
\* comment
CommandsAccumulated(body) ==
    (IF comment.seen = <<>> THEN <<>> ELSE comment.seen[Len(comment.seen)].commands)
       \o CommandsOfLines(SplitLines(body))

Commands(body) == CommandsOfLines(SplitLines(body))

(***************************************************************************)
(* Renderer.render_to_file.  The file is opened in text mode: written with *)
(* open(file_name, "w"), which puts os.linesep for every "\n", and read    *)
(* with open(file_name), which gives "\n" for every "\r\n" and every "\r". *)
(* docs.file is <<>> while the file does not exist and then <<its          *)
(* characters on disk>>; docs.call is <<>> until the first call and then   *)
(* <<the last call>>: the rendering, the file before it, what it returned, *)
(* whether it wrote, and the rendering of the call before it.              *)
(***************************************************************************)
\* the characters of a rendering
ContentChars == {"a", "\n", "\r"}

\* what self.render(template_name, context) returns
Renderings == UNION { [1..n -> ContentChars] : n \in 0..MaxContent }

\* os.linesep
LineSep(platform) == IF platform = "nt" THEN <<"\r", "\n">> ELSE <<"\n">>

\* filedes.write(content) of a file opened with open(file_name, "w")
RECURSIVE WriteText(_, _)
WriteText(content, platform) ==
    IF content = <<>> THEN <<>>
    ELSE (IF Head(content) = "\n" THEN LineSep(platform) ELSE <<Head(content)>>)
         \o WriteText(Tail(content), platform)

\* filedes.read() of a file opened with open(file_name)
RECURSIVE ReadText(_)
ReadText(disk) ==
    IF disk = <<>> THEN <<>>
    ELSE IF Head(disk) = "\r"
    THEN IF Len(disk) >= 2 /\ disk[2] = "\n"
         THEN <<"\n">> \o ReadText(Tail(Tail(disk)))
         ELSE <<"\n">> \o ReadText(Tail(disk))
    ELSE <<Head(disk)>> \o ReadText(Tail(disk))

NoDocs == [platform |-> "posix", file |-> <<>>, call |-> <<>>]

(***************************************************************************)
(* Comments.                                                               *)
(***************************************************************************)
\* '@BioConda-Bot lint retry'
LineLintRetry == <<"@","B","i","o","C","o","n","d","a","-","B","o","t"," ","l","i","n","t"," ","r","e","t","r","y">>
\* 'see @bioconda-bot for help'
LineSeeHelp == <<"s","e","e"," ","@","b","i","o","c","o","n","d","a","-","b","o","t"," ","f","o","r"," ","h","e","l","p">>
\* '@bioconda-bot please'
LinePlease == <<"@","b","i","o","c","o","n","d","a","-","b","o","t"," ","p","l","e","a","s","e">>
\* '@bioconda-bot merge'
LineMerge == <<"@","b","i","o","c","o","n","d","a","-","b","o","t"," ","m","e","r","g","e">>
\* 'hello @bioconda-bot'
LineHello == <<"h","e","l","l","o"," ","@","b","i","o","c","o","n","d","a","-","b","o","t">>
\* '@bioconda bot lint'
LineSpaced == <<"@","b","i","o","c","o","n","d","a"," ","b","o","t"," ","l","i","n","t">>
\* '@bioconda-bot'
LineAliasOnly == <<"@","b","i","o","c","o","n","d","a","-","b","o","t">>
\* '@biocondabot Update MyRecipe'
LineMixedCase == <<"@","b","i","o","c","o","n","d","a","b","o","t"," ","U","p","d","a","t","e"," ","M","y","R","e","c","i","p","e">>
\* ' @bioconda-bot lint'
LineIndented == <<" ","@","b","i","o","c","o","n","d","a","-","b","o","t"," ","l","i","n","t">>
\* '@bioconda-botany rebuild'
LineBotany == <<"@","b","i","o","c","o","n","d","a","-","b","o","t","a","n","y"," ","r","e","b","u","i","l","d">>
LineEmpty == <<>>

CommentLines ==
    {LineLintRetry, LineSeeHelp, LinePlease, LineMerge,
     LineHello, LineSpaced, LineAliasOnly, LineMixedCase,
     LineIndented, LineBotany,
     LineEmpty}

\* the lines joined by line feeds
RECURSIVE JoinLines(_)
JoinLines(lines) ==
    IF lines = <<>> THEN <<>>
    ELSE IF Len(lines) = 1 THEN Head(lines)
    ELSE Head(lines) \o <<"\n">> \o JoinLines(Tail(lines))

\* what the author of a comment writes: up to MaxLines lines
CommentTexts == UNION { [1..n -> CommentLines] : n \in 0..MaxLines }

\* the handling of an issue_comment event: the lines written and the body
\* they make (comment/body), the handler's position, the commands extracted,
\* the index of the command being dispatched, the calls of
\* command_routes.dispatch made, how many of them have returned, and the
\* exception it ended with; seen keeps the comments handled before it with
\* the commands extracted from each
NewComment(lines) ==
    [lines |-> lines, body |-> JoinLines(lines), pc |-> "start", commands |-> <<>>,
     next |-> 0, dispatched |-> <<>>, returned |-> 0, err |-> "none", seen |-> <<>>]

NoComment == [lines |-> <<>>, body |-> <<>>, pc |-> "none", commands |-> <<>>,
              next |-> 0, dispatched |-> <<>>, returned |-> 0, err |-> "none",
              seen |-> <<>>]

\* the loop dispatching all the commands from the k-th on at once, without
\* awaiting one before the next
DispatchLoopGather(c, k) ==
    IF k > Len(c.commands)
    THEN [c EXCEPT !.pc = "done", !.next = k]
    ELSE IF \E j \in k..Len(c.commands) : c.commands[j] = <<>>
    THEN [c EXCEPT !.pc = "error", !.err = "ValueError", !.next = k]
    ELSE [c EXCEPT !.pc = "dispatch", !.next = Len(c.commands),
                   !.dispatched = @ \o [j \in 1..(Len(c.commands) - k + 1) |->
                                          [cmd  |-> Head(c.commands[k + j - 1]),
                                           args |-> Tail(c.commands[k + j - 1])]]]

\* the loop of comment_created from its k-th command to the next awaited
\* dispatch: "for cmd, *args in commands" takes the first word as cmd
DispatchLoop(c, k) ==
    IF k > Len(c.commands)
    THEN [c EXCEPT !.pc = "done", !.next = k]
    ELSE IF c.commands[k] = <<>>
    THEN [c EXCEPT !.pc = "error", !.err = "ValueError", !.next = k]
    ELSE [c EXCEPT !.pc = "dispatch", !.next = k,
                   !.dispatched = Append(@, [cmd  |-> Head(c.commands[k]),
                                             args |-> Tail(c.commands[k])])]

comment_created(c) == DispatchLoop([c EXCEPT !.commands = Commands(c.body)], 1)

\* the event reaches comment_created, which runs to its first dispatch
CommentCreated ==
    /\ comment.pc = "start"
    /\ comment' = comment_created(comment)
    /\ UNCHANGED <<deliveries, check_runs, webhooks, docs>>

\* command_routes.dispatch returns and the loop goes on
CommandDispatchReturns ==
    /\ comment.pc = "dispatch"
    /\ comment' = DispatchLoop([comment EXCEPT !.returned = @ + 1], comment.next + 1)
    /\ UNCHANGED <<deliveries, check_runs, webhooks, docs>>

InitComment ==
    /\ deliveries = <<>>
    /\ check_runs = <<>>
    /\ webhooks = {}
    /\ \E lines \in CommentTexts : comment = NewComment(lines)
    /\ docs = NoDocs

NextComment ==
    \/ CommentCreated
    \/ CommandDispatchReturns

\* the handling of one issue comment
SpecComment == InitComment /\ [][NextComment]_vars

\* comments that come after the first: one of those handled so far again,
\* or one of these
LaterTexts == { <<LineMerge>>, <<LineAliasOnly, LineMixedCase>> }

FirstTexts == UNION { [1..n -> CommentLines] : n \in 0..MaxFirstLines }

\* the handling of the comment has ended and another issue_comment event
\* reaches comment_created
CommentAgain ==
    /\ comment.pc \in {"done", "error"}
    /\ Len(comment.seen) + 1 < MaxComments
    /\ \E lines \in {comment.lines}
                     \cup { comment.seen[k].lines : k \in 1..Len(comment.seen) }
                     \cup LaterTexts :
          comment' = [NewComment(lines) EXCEPT
                         !.seen = Append(comment.seen,
                                         [lines |-> comment.lines, body |-> comment.body,
                                          commands |-> comment.commands])]
    /\ UNCHANGED <<deliveries, check_runs, webhooks, docs>>

InitReparse ==
    /\ deliveries = <<>>
    /\ check_runs = <<>>
    /\ webhooks = {}
    /\ \E lines \in FirstTexts : comment = NewComment(lines)
    /\ docs = NoDocs

NextReparse ==
    \/ CommentCreated
    \/ CommandDispatchReturns
    \/ CommentAgain

\* the handling of several issue comments, one after the other
SpecReparse == InitReparse /\ [][NextReparse]_vars

\* render_to_file after content = self.render(template_name, context)
render_to_file(r, content) ==
    LET previous == IF r.call = <<>> THEN <<>> ELSE <<r.call[1].content>>
        unchanged == r.file # <<>> /\ ReadText(r.file[1]) = content
    IN  IF unchanged
        THEN [r EXCEPT !.call = <<[content |-> content, before |-> r.file,
                                   returned |-> FALSE, wrote |-> FALSE,
                                   previous |-> previous]>>]
        ELSE [r EXCEPT !.file = <<WriteText(content, r.platform)>>,
                       !.call = <<[content |-> content, before |-> r.file,
                                   returned |-> TRUE, wrote |-> TRUE,
                                   previous |-> previous]>>]

\* a call of render_to_file for the file, with some template and context
RenderToFile ==
    /\ \E content \in Renderings : docs' = render_to_file(docs, content)
    /\ UNCHANGED <<deliveries, check_runs, webhooks, comment>>

\* the platform, and the file as an earlier build (or nobody) left it
InitRender ==
    /\ deliveries = <<>>
    /\ check_runs = <<>>
    /\ webhooks = {}
    /\ comment = NoComment
    /\ \E platform \in {"posix", "nt"}, file \in { <<>> } \cup { <<c>> : c \in Renderings } :
          docs = [platform |-> platform, file |-> file, call |-> <<>>]

NextRender == RenderToFile

SpecRender == InitRender /\ [][NextRender]_vars

(***************************************************************************)
(* The requests a handler makes of the gateway and of the lint scheduler.  *)
(***************************************************************************)
CreateCall(title, head_sha) ==
    [op |-> "create_check_run", title |-> title, head_sha |-> head_sha]

\* summary_key is the keyword the source passes the summary under
ModifyCall(number, status, conclusion, output_title, summary_key) ==
    [op |-> "modify_check_run", number |-> number, status |-> status,
     conclusion |-> conclusion, output_title |-> output_title,
     summary_key |-> summary_key]

GetPrsCall(number) == [op |-> "get_prs", number |-> number]

GetPrModifiedFilesCall(number) == [op |-> "get_pr_modified_files", number |-> number]

PRInfo(installation, user, repo, ref, recipes, issue_number) ==
    [installation |-> installation, user |-> user, repo |-> repo, ref |-> ref,
     recipes |-> recipes, issue_number |-> issue_number]

ScheduleCall(pr_info, head_sha, check_run_number) ==
    [op |-> "schedule", pr_info |-> pr_info, head_sha |-> head_sha,
     check_run_number |-> check_run_number]

(***************************************************************************)
(* A delivery: the event, the handler's position (pc), the exception it    *)
(* ended with (err), the requests it has made (calls), and the locals pr   *)
(* and files, <<>> until assigned and then <<value>>; enqueued is <<>>      *)
(* until lint_check.schedule is called and then <<whether it accepted the  *)
(* task>>.  root is the                                                    *)
(* external delivery whose handling led to this one; dup is the first      *)
(* delivery of the event this one repeats (0 when it repeats none).        *)
(***************************************************************************)
NewDelivery(e, root, dup) ==
    [event |-> e, root |-> root, dup |-> dup, pc |-> "start", err |-> "none",
     calls |-> <<>>, pr |-> <<>>, files |-> <<>>, enqueued |-> <<>>]

Call(d, c)     == [d EXCEPT !.calls = Append(@, c)]
Await(d, what) == [d EXCEPT !.pc = what]
Return(d)      == [d EXCEPT !.pc = "done"]
Raise(d, exc)  == [d EXCEPT !.pc = "error", !.err = exc]

Terminated(d) == d.pc \in {"done", "error"}

(***************************************************************************)
(* create_check_run, up to its awaited gateway call.                       *)
(***************************************************************************)
\* create_check_run without the fallback to check_run/head_sha
create_check_run_suite_only(d) ==
    LET e == d.event
    IN  IF Has(e, "check_suite/head_sha")
        THEN Await(Call(d, CreateCall("Linting Recipe(s)", Get(e, "check_suite/head_sha"))),
                   "create_check_run")
        ELSE Raise(d, "KeyError")

\* create_check_run remembering, across the deliveries, the head SHAs it has
\* asked a check run for, and asking once only for each
create_check_run_once(d) ==
    LET e == d.event
        asked == { deliveries[i].calls[k].head_sha :
                     <<i, k>> \in { ik \in (1..Len(deliveries)) \X (1..3) :
                                      /\ ik[2] <= Len(deliveries[ik[1]].calls)
                                      /\ deliveries[ik[1]].calls[ik[2]].op = "create_check_run" } }
        head_sha == IF Has(e, "check_suite/head_sha") THEN Get(e, "check_suite/head_sha")
                    ELSE Get(e, "check_run/head_sha")
    IN  IF ~Has(e, "check_suite/head_sha") /\ ~Has(e, "check_run/head_sha")
        THEN Raise(d, "KeyError")
        ELSE IF head_sha \in asked
        THEN Return(d)
        ELSE Await(Call(d, CreateCall("Linting Recipe(s)", head_sha)), "create_check_run")

create_check_run(d) ==
    LET e == d.event
    IN  IF Has(e, "check_suite/head_sha")
        THEN Await(Call(d, CreateCall("Linting Recipe(s)", Get(e, "check_suite/head_sha"))),
                   "create_check_run")
        ELSE IF Has(e, "check_run/head_sha")
        THEN Await(Call(d, CreateCall("Linting Recipe(s)", Get(e, "check_run/head_sha"))),
                   "create_check_run")
        ELSE Raise(d, "KeyError")

(***************************************************************************)
(* initiate_check_run, in its three parts: up to the await of get_prs,     *)
(* from the response of get_prs up to the await of get_pr_modified_files,  *)
(* and from the response of get_pr_modified_files to the end.              *)
(***************************************************************************)
initiate_check_run(d) ==
    LET e == d.event
    IN  IF \/ ~Has(e, "check_run/id")
           \/ ~Has(e, "check_run/head_sha")
           \/ ~Has(e, "check_run/check_suite/pull_requests")
        THEN Raise(d, "KeyError")
        ELSE LET check_run_number == Get(e, "check_run/id")
                 prs == Get(e, "check_run/check_suite/pull_requests")
             IN  IF prs = <<>>
                 THEN Return(Call(d, ModifyCall(check_run_number, "completed", "neutral",
                                                "No PRs associated", "outout_summary")))
                 ELSE Await(Call(d, GetPrsCall(prs[1].number)), "get_prs")

\* initiate_check_run_pr reporting a pull request that was not found as a failure
initiate_check_run_pr_failure(d, pr) ==
    LET e == d.event
        check_run_number == Get(e, "check_run/id")
        issue_number == Get(e, "check_run/check_suite/pull_requests")[1].number
        d1 == [d EXCEPT !.pr = <<pr>>]
    IN  IF pr = <<>>
        THEN Raise(Call(d1, ModifyCall(check_run_number, "completed", "failure",
                                       "PR not found", "outout_summary")),
                   "TypeError")
        ELSE Await(Call(d1, GetPrModifiedFilesCall(issue_number)), "get_pr_modified_files")

\* pr is the response: <<>> for none, <<the pull request>> otherwise
initiate_check_run_pr(d, pr) ==
    LET e == d.event
        check_run_number == Get(e, "check_run/id")
        issue_number == Get(e, "check_run/check_suite/pull_requests")[1].number
        d1 == [d EXCEPT !.pr = <<pr>>]
    IN  IF pr = <<>>
        THEN \* logger.error reads pr['number'] of the empty response
             Raise(Call(d1, ModifyCall(check_run_number, "completed", "neutral",
                                       "PR not found", "outout_summary")),
                   "TypeError")
        ELSE Await(Call(d1, GetPrModifiedFilesCall(issue_number)), "get_pr_modified_files")

\* [item['filename'] for item in files if item['filename'].endswith('/meta.yaml')]
EndsWith(s, suffix) ==
    /\ Len(s) >= Len(suffix)
    /\ SubSeq(s, Len(s) - Len(suffix) + 1, Len(s)) = suffix

\* Recipes collecting the manifests last file first
RECURSIVE RecipesReversed(_)
RecipesReversed(files) ==
    IF files = <<>> THEN <<>>
    ELSE IF EndsWith(Head(files).filename, MetaYamlSuffix)
         THEN RecipesReversed(Tail(files)) \o <<Head(files).filename>>
         ELSE RecipesReversed(Tail(files))

RECURSIVE Recipes(_)
Recipes(files) ==
    IF files = <<>> THEN <<>>
    ELSE IF EndsWith(Head(files).filename, MetaYamlSuffix)
         THEN <<Head(files).filename>> \o Recipes(Tail(files))
         ELSE Recipes(Tail(files))

\* initiate_check_run_files returning without a word when no recipe changed
initiate_check_run_files_silent(d, files, scheduled) ==
    LET e == d.event
        check_run_number == Get(e, "check_run/id")
        head_sha == Get(e, "check_run/head_sha")
        issue_number == Get(e, "check_run/check_suite/pull_requests")[1].number
        pr == d.pr[1][1]
        recipes == Recipes(files)
        d1 == [d EXCEPT !.files = <<files>>]
    IN  IF recipes = <<>>
        THEN Return(d1)
        ELSE IF ~Has(e, "installation/id")
        THEN Raise(d1, "KeyError")
        ELSE LET pr_info == PRInfo(Get(e, "installation/id"), pr.head.user.login,
                                   pr.head.repo.name, pr.head.ref, recipes, issue_number)
                 d2 == [Call(d1, ScheduleCall(pr_info, head_sha, check_run_number))
                          EXCEPT !.enqueued = <<scheduled>>]
             IN  IF scheduled THEN Return(d2) ELSE Raise(d2, "ScheduleError")

\* initiate_check_run_files going on as if nothing had happened when
\* lint_check.schedule raises
initiate_check_run_files_swallow(d, files, scheduled) ==
    LET e == d.event
        check_run_number == Get(e, "check_run/id")
        head_sha == Get(e, "check_run/head_sha")
        issue_number == Get(e, "check_run/check_suite/pull_requests")[1].number
        pr == d.pr[1][1]
        recipes == Recipes(files)
        d1 == [d EXCEPT !.files = <<files>>]
    IN  IF recipes = <<>>
        THEN Return(Call(d1, ModifyCall(check_run_number, "completed", "success",
                                        "No recipes modified by PR", "output_summary")))
        ELSE IF ~Has(e, "installation/id")
        THEN Raise(d1, "KeyError")
        ELSE LET pr_info == PRInfo(Get(e, "installation/id"), pr.head.user.login,
                                   pr.head.repo.name, pr.head.ref, recipes, issue_number)
                 d2 == [Call(d1, ScheduleCall(pr_info, head_sha, check_run_number))
                          EXCEPT !.enqueued = <<scheduled>>]
             IN  Return(d2)

\* scheduled: whether lint_check.schedule accepts the task (it raises otherwise)
initiate_check_run_files(d, files, scheduled) ==
    LET e == d.event
        check_run_number == Get(e, "check_run/id")
        head_sha == Get(e, "check_run/head_sha")
        issue_number == Get(e, "check_run/check_suite/pull_requests")[1].number
        pr == d.pr[1][1]
        recipes == Recipes(files)
        d1 == [d EXCEPT !.files = <<files>>]
    IN  IF recipes = <<>>
        THEN Return(Call(d1, ModifyCall(check_run_number, "completed", "success",
                                        "No recipes modified by PR", "output_summary")))
        ELSE IF ~Has(e, "installation/id")
        THEN Raise(d1, "KeyError")
        ELSE LET pr_info == PRInfo(Get(e, "installation/id"), pr.head.user.login,
                                   pr.head.repo.name, pr.head.ref, recipes, issue_number)
                 d2 == [Call(d1, ScheduleCall(pr_info, head_sha, check_run_number))
                          EXCEPT !.enqueued = <<scheduled>>]
             IN  IF scheduled THEN Return(d2) ELSE Raise(d2, "ScheduleError")

(***************************************************************************)
(* handle_check_suite and handle_check_run, up to the first awaited call.  *)
(***************************************************************************)
\* handle_check_suite without the test of the pull requests
handle_check_suite_any_suite(d) ==
    LET e == d.event
        action == Get(e, "action")
    IN  IF action \notin {"requested", "rerequested"}
        THEN Return(d)
        ELSE create_check_run(d)

handle_check_suite(d) ==
    LET e == d.event
        action == Get(e, "action")
    IN  IF ~Has(e, "action")
        THEN Raise(d, "KeyError")
        ELSE IF action \notin {"requested", "rerequested"}
        THEN Return(d)
        ELSE IF GetDefault(e, "check_suite/pull_requests", <<>>) = <<>>
        THEN Return(d)
        ELSE create_check_run(d)

\* the guard letting every application's check runs through
AppIdGuardOpen(e) == TRUE

\* event.get("check_run/app/id") != int(APP_ID) is the negation of this
AppIdGuard(e) == Get(e, "check_run/app/id") = APP_ID

\* handle_check_run creating a check run for a created check run as well
handle_check_run_create_on_created(d) ==
    LET e == d.event
    IN  IF ~Has(e, "check_run/app/id")
        THEN Raise(d, "KeyError")
        ELSE IF ~AppIdGuard(e)
        THEN Return(d)
        ELSE IF Get(e, "action") \in {"rerequested", "created"}
        THEN create_check_run(d)
        ELSE Return(d)

\* handle_check_run creating a check run whenever one of its own completes
handle_check_run_create_on_completed(d) ==
    LET e == d.event
    IN  IF ~Has(e, "check_run/app/id")
        THEN Raise(d, "KeyError")
        ELSE IF ~AppIdGuard(e)
        THEN Return(d)
        ELSE IF Get(e, "action") \in {"rerequested", "completed"}
        THEN create_check_run(d)
        ELSE IF Get(e, "action") = "created"
        THEN initiate_check_run(d)
        ELSE Return(d)

handle_check_run(d) ==
    LET e == d.event
    IN  IF ~Has(e, "check_run/app/id")
        THEN Raise(d, "KeyError")
        ELSE IF ~AppIdGuard(e)
        THEN Return(d)
        ELSE IF ~Has(e, "action")
        THEN Raise(d, "KeyError")
        ELSE IF Get(e, "action") = "rerequested"
        THEN create_check_run(d)
        ELSE IF Get(e, "action") = "created"
        THEN initiate_check_run(d)
        ELSE Return(d)


(***************************************************************************)
(* The platform: it keeps the check runs, applies the modifications and    *)
(* tells the bot (a check_run event carrying the bot's application id) of  *)
(* every check run the bot creates and of every modification.              *)
(***************************************************************************)
\* the requests d2 has made that d had not
NewCalls(d, d2) == SubSeq(d2.calls, Len(d.calls) + 1, Len(d2.calls))

Modifications(cs) == { cs[k] : k \in { j \in 1..Len(cs) : cs[j].op = "modify_check_run" } }

Modified(runs, mods) ==
    [k \in 1..Len(runs) |->
        IF \E m \in mods : m.number = k
        THEN LET m == CHOOSE m \in mods : m.number = k
             IN  [runs[k] EXCEPT !.status = m.status, !.conclusion = m.conclusion]
        ELSE runs[k]]

Notifications(d, mods) ==
    { [action |-> "completed", id |-> m.number,
       head_sha |-> Get(d.event, "check_run/head_sha"),
       prs |-> Get(d.event, "check_run/check_suite/pull_requests"), root |-> d.root] : m \in mods }

\* the platform's part of a handler step that takes a delivery from d to d2;
\* hooks are the events still to deliver
PlatformApplies(d, d2, hooks) ==
    LET mods == Modifications(NewCalls(d, d2))
    IN  /\ check_runs' = Modified(check_runs, mods)
        /\ webhooks' = hooks \cup Notifications(d, mods)

(***************************************************************************)
(* Deliveries.  event_routes dispatches the event to the handler           *)
(* registered for its type, which runs up to its first awaited call.       *)
(***************************************************************************)
dispatch(d) ==
    IF d.event.type = "check_suite" THEN handle_check_suite(d)
    ELSE IF d.event.type = "check_run" THEN handle_check_run(d)
    ELSE Return(d)

Room == Len(deliveries) < MaxDeliveries

Arrives(e, root, dup, hooks) ==
    LET d  == NewDelivery(e, root, dup)
        d2 == dispatch(d)
    IN  /\ deliveries' = Append(deliveries, d2)
        /\ PlatformApplies(d, d2, hooks)
        /\ UNCHANGED <<comment, docs>>

\* an event from outside reaches the bot; the payload identifies the event,
\* so that a payload that comes again is a repeated delivery
\* (WebhookRepeated)
WebhookExternal ==
    /\ Room
    /\ \E e \in ExternalEvents :
          /\ \A i \in 1..Len(deliveries) : deliveries[i].event # e
          /\ Arrives(e, Len(deliveries) + 1, 0, webhooks)

\* the platform delivers the event of a check run the bot created or modified;
\* a created check run has the pull requests its commit has by then, a
\* modified one those of the event whose handling modified it
WebhookPlatform ==
    /\ Room
    /\ \E w \in webhooks :
          \E prs \in (IF w.action = "created" THEN PrLists ELSE {w.prs}) :
             Arrives(CheckRunEvent(w.action, APP_ID, w.id, w.head_sha, prs),
                     w.root, 0, webhooks \ {w})

\* the platform delivers an event a second time
WebhookRepeated ==
    /\ Room
    /\ \E i \in 1..Len(deliveries) :
          LET d == deliveries[i]
              root == IF d.root = i THEN Len(deliveries) + 1 ELSE d.root
              first == IF d.dup = 0 THEN i ELSE d.dup
          IN  Arrives(d.event, root, first, webhooks)

(***************************************************************************)
(* Handler steps: each resumes a handler at the response of the call it    *)
(* awaits and runs it to the next awaited call (or to its end).            *)
(***************************************************************************)
\* create_check_run asking again when ghapi.create_check_run raises, and
\* giving up at the third failure
CreateCheckRunReturnsRetrying(i) ==
    /\ UNCHANGED <<comment, docs>>
    /\ deliveries[i].pc = "create_check_run"
    /\ LET d == deliveries[i]
           c == d.calls[Len(d.calls)]
       IN  \/ /\ deliveries' = [deliveries EXCEPT ![i] = Return(d)]
              /\ check_runs' = Append(check_runs,
                     [head_sha |-> c.head_sha, status |-> "queued", conclusion |-> "none"])
              /\ webhooks' = webhooks \cup
                     { [action |-> "created", id |-> Len(check_runs) + 1,
                        head_sha |-> c.head_sha, prs |-> <<>>, root |-> d.root] }
           \/ /\ deliveries' = [deliveries EXCEPT ![i] =
                                    IF Len(d.calls) < 3
                                    THEN Await(Call(d, c), "create_check_run")
                                    ELSE Raise(d, "GatewayError")]
              /\ UNCHANGED <<check_runs, webhooks>>

\* ghapi.create_check_run returns the number of the new check run, or raises
CreateCheckRunReturns(i) ==
    /\ UNCHANGED <<comment, docs>>
    /\ deliveries[i].pc = "create_check_run"
    /\ LET d == deliveries[i]
           c == d.calls[Len(d.calls)]
       IN  \/ /\ deliveries' = [deliveries EXCEPT ![i] = Return(d)]
              /\ check_runs' = Append(check_runs,
                     [head_sha |-> c.head_sha, status |-> "queued", conclusion |-> "none"])
              /\ webhooks' = webhooks \cup
                     { [action |-> "created", id |-> Len(check_runs) + 1,
                        head_sha |-> c.head_sha, prs |-> <<>>, root |-> d.root] }
           \/ /\ deliveries' = [deliveries EXCEPT ![i] = Raise(d, "GatewayError")]
              /\ UNCHANGED <<check_runs, webhooks>>

\* ghapi.get_prs returns the pull request, or none, or raises
GetPrsReturns(i) ==
    /\ UNCHANGED <<comment, docs>>
    /\ deliveries[i].pc = "get_prs"
    /\ LET d == deliveries[i]
           c == d.calls[Len(d.calls)]
       IN  \/ \E pr \in { <<>>, <<PullRequest(c.number)>> } :
                 LET d2 == initiate_check_run_pr(d, pr)
                 IN  /\ deliveries' = [deliveries EXCEPT ![i] = d2]
                     /\ PlatformApplies(d, d2, webhooks)
           \/ /\ deliveries' = [deliveries EXCEPT ![i] = Raise(d, "GatewayError")]
              /\ UNCHANGED <<check_runs, webhooks>>

\* ghapi.get_pr_modified_files returns the changed files, or raises
GetPrModifiedFilesReturns(i) ==
    /\ UNCHANGED <<comment, docs>>
    /\ deliveries[i].pc = "get_pr_modified_files"
    /\ LET d == deliveries[i]
       IN  \/ \E files \in FileLists, scheduled \in BOOLEAN :
                 LET d2 == initiate_check_run_files(d, files, scheduled)
                 IN  /\ deliveries' = [deliveries EXCEPT ![i] = d2]
                     /\ PlatformApplies(d, d2, webhooks)
           \/ /\ deliveries' = [deliveries EXCEPT ![i] = Raise(d, "GatewayError")]
              /\ UNCHANGED <<check_runs, webhooks>>

Init ==
    /\ deliveries = <<>>
    /\ check_runs = <<>>
    /\ webhooks = {}
    /\ comment = NoComment
    /\ docs = NoDocs

Next ==
    \/ WebhookExternal
    \/ WebhookPlatform
    \/ WebhookRepeated
    \/ \E i \in 1..Len(deliveries) : CreateCheckRunReturns(i)
    \/ \E i \in 1..Len(deliveries) : GetPrsReturns(i)
    \/ \E i \in 1..Len(deliveries) : GetPrModifiedFilesReturns(i)

Spec == Init /\ [][Next]_vars

(***************************************************************************)
(* The recipes of a pull request: one created check_run event of the bot   *)
(* is handled, and the changed files are drawn from more kinds of paths.   *)
(***************************************************************************)
\* 'meta.yaml', the manifest of a recipe at the root of the repository
RootMeta == <<"m","e","t","a",".","y","a","m","l">>
\* 'recipes/foo/1.0/meta.yaml'
DeepMeta == <<"r","e","c","i","p","e","s","/","f","o","o","/","1",".","0","/","m","e","t","a",".","y","a","m","l">>
\* 'recipes/foo/notmeta.yaml'
NotMeta == <<"r","e","c","i","p","e","s","/","f","o","o","/","n","o","t","m","e","t","a",".","y","a","m","l">>

ChangedNames == {RecipeFoo, BuildFoo, RootMeta, DeepMeta, NotMeta}

ChangedLists == { AsFileItems(s) : s \in UniqueSeqs(ChangedNames, MaxChanged) }

\* the platform tells the bot of a check run it created for a pull request
CreatedArrives ==
    /\ deliveries = <<>>
    /\ \E r \in ExternalRuns :
          Arrives(CheckRunEvent("created", APP_ID, r.id, r.head_sha, <<[number |-> 1]>>),
                  1, 0, webhooks)

\* ghapi.get_pr_modified_files returns the changed files, or raises
ChangedFilesReturn(i) ==
    /\ UNCHANGED <<comment, docs>>
    /\ deliveries[i].pc = "get_pr_modified_files"
    /\ LET d == deliveries[i]
       IN  \/ \E files \in ChangedLists, scheduled \in BOOLEAN :
                 LET d2 == initiate_check_run_files(d, files, scheduled)
                 IN  /\ deliveries' = [deliveries EXCEPT ![i] = d2]
                     /\ PlatformApplies(d, d2, webhooks)
           \/ /\ deliveries' = [deliveries EXCEPT ![i] = Raise(d, "GatewayError")]
              /\ UNCHANGED <<check_runs, webhooks>>

NextRecipes ==
    \/ CreatedArrives
    \/ \E i \in 1..Len(deliveries) : GetPrsReturns(i)
    \/ \E i \in 1..Len(deliveries) : ChangedFilesReturn(i)

SpecRecipes == Init /\ [][NextRecipes]_vars

(***************************************************************************)
(* Malformed envelopes: events whose payload lacks one of the paths the    *)
(* handlers read.                                                          *)
(***************************************************************************)
MalformedPaths ==
    {"action", "check_suite/pull_requests", "check_suite/head_sha", "check_run/app/id",
     "check_run/check_suite/pull_requests", "check_run/head_sha", "check_run/id",
     "installation/id"}

\* the event e with nothing at the path
Without(e, path) ==
    [type |-> e.type, data |-> [p \in DOMAIN e.data \ {path} |-> e.data[p]]]

MalformedEvents ==
    { Without(e, p) : <<e, p>> \in { ep \in ExternalEvents \X MalformedPaths :
                                       ep[2] \in DOMAIN ep[1].data } }

\* an event with a missing path reaches the bot
WebhookMalformed ==
    /\ Len(deliveries) < MaxEnvelopes
    /\ \E e \in MalformedEvents : Arrives(e, Len(deliveries) + 1, 0, webhooks)

NextEnvelope ==
    \/ WebhookMalformed
    \/ \E i \in 1..Len(deliveries) : CreateCheckRunReturns(i)
    \/ \E i \in 1..Len(deliveries) : GetPrsReturns(i)
    \/ \E i \in 1..Len(deliveries) : GetPrModifiedFilesReturns(i)

\* the handling of events with a missing path
SpecEnvelope == Init /\ [][NextEnvelope]_vars


(***************************************************************************)
(* Vocabulary of the properties.                                           *)
(***************************************************************************)
Ids == 1..Len(deliveries)

IsCheckSuite(d) == d.event.type = "check_suite"
IsCheckRun(d)   == d.event.type = "check_run"
Action(d)       == Get(d.event, "action")

\* a check_run event that passes the application-identity guard
PassesGuard(d) ==
    /\ IsCheckRun(d)
    /\ Has(d.event, "check_run/app/id")
    /\ Get(d.event, "check_run/app/id") = APP_ID

CreatedByBot(d) == PassesGuard(d) /\ Has(d.event, "action") /\ Action(d) = "created"
Rerequested(d)  == PassesGuard(d) /\ Has(d.event, "action") /\ Action(d) = "rerequested"

RunPrs(d) == Get(d.event, "check_run/check_suite/pull_requests")

Positions(d, op) == { k \in 1..Len(d.calls) : d.calls[k].op = op }
CountOp(d, op)   == Cardinality(Positions(d, op))
\* the request of that kind, where there is exactly one
TheCall(d, op)   == d.calls[CHOOSE k \in Positions(d, op) : TRUE]

ManifestName == <<"m","e","t","a",".","y","a","m","l">>

\* a recipe manifest: the file meta.yaml of some directory
IsRecipeManifest(path) ==
    LET n == Len(path)
        m == Len(ManifestName)
    IN  /\ n > m
        /\ path[n - m] = "/"
        /\ \A k \in 1..m : path[n - m + k] = ManifestName[k]

ManifestIndexes(files) == { k \in 1..Len(files) : IsRecipeManifest(files[k].filename) }

\* the j-th manifest of the changed-files list, in the order of that list
NthManifest(files, j) ==
    LET idx == ManifestIndexes(files)
    IN  files[CHOOSE k \in idx : Cardinality({ m \in idx : m <= k }) = j].filename

(***************************************************************************)
(* C1.  A check_run event of another application, whatever its action,     *)
(* leads to no create_check_run, no modify_check_run and no scheduler      *)
(* call.                                                                   *)
(***************************************************************************)
C1_ForeignCheckRunIgnored ==
    \A i \in Ids :
        LET d == deliveries[i]
        IN  (IsCheckRun(d) /\ Get(d.event, "check_run/app/id") # APP_ID)
            => /\ CountOp(d, "create_check_run") = 0
               /\ CountOp(d, "modify_check_run") = 0
               /\ CountOp(d, "schedule") = 0

C1_Witness ==
    \E i \in Ids :
        LET d == deliveries[i]
        IN  /\ IsCheckRun(d)
            /\ Get(d.event, "check_run/app/id") # APP_ID
            /\ Action(d) = "created"
            /\ d.pc = "done"

(***************************************************************************)
(* C2.  As claimed: the handling of a check_run event, whatever its        *)
(* action, never issues a create_check_run request.                        *)
(***************************************************************************)
C2_NoCreateOnCheckRun ==
    \A i \in Ids :
        IsCheckRun(deliveries[i]) => CountOp(deliveries[i], "create_check_run") = 0

(***************************************************************************)
(* C2, amended.  A create_check_run request is issued only by the handling *)
(* of a check_suite event or of a rerequested check_run event of the bot's *)
(* own application; a modify_check_run request only by the handling of a   *)
(* created check_run event of the bot's own application.                   *)
(***************************************************************************)
C2_CreateOnlyOnSuiteOrRerequest ==
    \A i \in Ids :
        LET d == deliveries[i]
        IN  /\ CountOp(d, "create_check_run") > 0 => (IsCheckSuite(d) \/ Rerequested(d))
            /\ CountOp(d, "modify_check_run") > 0 => CreatedByBot(d)

C2_Witness ==
    \E i, j \in Ids :
        /\ CreatedByBot(deliveries[i])
        /\ deliveries[i].pc = "done"
        /\ CountOp(deliveries[i], "modify_check_run") = 1
        /\ Rerequested(deliveries[j])
        /\ deliveries[j].pc = "done"
        /\ CountOp(deliveries[j], "create_check_run") = 1

(***************************************************************************)
(* C3.  A created check_run event that passes the guard and (a) has no     *)
(* associated pull request, or (b) whose pull request is not found, or     *)
(* (c) whose pull request changes no recipe manifest: exactly one          *)
(* modify_check_run request, for the check run of the event, completed,    *)
(* neutral in (a) and (b), success in (c); never failure; no scheduler     *)
(* call.                                                                   *)
(***************************************************************************)
NoPrsCase(d)     == CreatedByBot(d) /\ RunPrs(d) = <<>>
PrNotFoundCase(d) == CreatedByBot(d) /\ d.pr = << <<>> >>
NoRecipesCase(d) ==
    /\ CreatedByBot(d)
    /\ d.files # <<>>
    /\ ManifestIndexes(d.files[1]) = {}

OneModification(d, conclusion) ==
    /\ CountOp(d, "modify_check_run") = 1
    /\ TheCall(d, "modify_check_run").number = Get(d.event, "check_run/id")
    /\ TheCall(d, "modify_check_run").status = "completed"
    /\ TheCall(d, "modify_check_run").conclusion = conclusion
    /\ CountOp(d, "schedule") = 0

C3_TerminalOutcomes ==
    \A i \in Ids :
        LET d == deliveries[i]
        IN  /\ NoPrsCase(d) => OneModification(d, "neutral")
            /\ PrNotFoundCase(d) => OneModification(d, "neutral")
            /\ NoRecipesCase(d) => OneModification(d, "success")
            /\ \A k \in Positions(d, "modify_check_run") : d.calls[k].conclusion # "failure"

C3_Witness ==
    \E i, j \in Ids :
        /\ PrNotFoundCase(deliveries[i])
        /\ Terminated(deliveries[i])
        /\ NoRecipesCase(deliveries[j])
        /\ Terminated(deliveries[j])
        /\ Len(deliveries[j].files[1]) > 0

(***************************************************************************)
(* C4.  A created check_run event that passes the guard and whose pull     *)
(* request changes at least one recipe manifest: exactly one scheduler     *)
(* call, with the head SHA and the check-run id of the event and with the  *)
(* manifests of the changed-files list, in the order of that list, as      *)
(* recipes; no modify_check_run request.                                   *)
(***************************************************************************)
HasRecipesCase(d) ==
    /\ CreatedByBot(d)
    /\ d.files # <<>>
    /\ ManifestIndexes(d.files[1]) # {}

C4_OneSchedulerCall ==
    \A i \in Ids :
        LET d == deliveries[i]
        IN  HasRecipesCase(d) =>
               LET c == TheCall(d, "schedule")
                   files == d.files[1]
               IN  /\ CountOp(d, "schedule") = 1
                   /\ c.head_sha = Get(d.event, "check_run/head_sha")
                   /\ c.check_run_number = Get(d.event, "check_run/id")
                   /\ Len(c.pr_info.recipes) = Cardinality(ManifestIndexes(files))
                   /\ \A j \in 1..Len(c.pr_info.recipes) :
                         c.pr_info.recipes[j] = NthManifest(files, j)
                   /\ CountOp(d, "modify_check_run") = 0

C4_Witness ==
    \E i \in Ids :
        LET d == deliveries[i]
        IN  /\ HasRecipesCase(d)
            /\ d.pc = "done"
            /\ Len(d.files[1]) = 3
            /\ TheCall(d, "schedule").pr_info.recipes = <<RecipeFoo, RecipeBar>>

(***************************************************************************)
(* C5.  The handling of a check_suite event issues exactly one             *)
(* create_check_run request, with check_suite/head_sha, when the action is *)
(* requested or rerequested and pull_requests is present and not empty;    *)
(* in every other case it makes no request at all.                         *)
(***************************************************************************)
SuiteWithPrs(d) ==
    /\ Action(d) \in {"requested", "rerequested"}
    /\ Has(d.event, "check_suite/pull_requests")
    /\ Get(d.event, "check_suite/pull_requests") # <<>>

C5_SuiteCreatesIffPrs ==
    \A i \in Ids :
        LET d == deliveries[i]
        IN  IsCheckSuite(d) =>
               IF SuiteWithPrs(d)
               THEN /\ Len(d.calls) = 1
                    /\ d.calls[1].op = "create_check_run"
                    /\ d.calls[1].head_sha = Get(d.event, "check_suite/head_sha")
               ELSE d.calls = <<>>

C5_Witness ==
    \E i, j \in Ids :
        /\ IsCheckSuite(deliveries[i])
        /\ SuiteWithPrs(deliveries[i])
        /\ deliveries[i].pc = "done"
        /\ Len(check_runs) = 1
        /\ IsCheckSuite(deliveries[j])
        /\ Action(deliveries[j]) = "requested"
        /\ ~Has(deliveries[j].event, "check_suite/pull_requests")
        /\ deliveries[j].pc = "done"

(***************************************************************************)
(* C6.  As claimed: the handling of a rerequested check_run event that     *)
(* passes the guard does what the check_suite transition does: no check    *)
(* run is created when there is no associated pull request, otherwise      *)
(* exactly one, with the head SHA; the old check run is never modified.    *)
(***************************************************************************)
OneCreation(d) ==
    /\ Len(d.calls) = 1
    /\ d.calls[1].op = "create_check_run"
    /\ d.calls[1].head_sha = Get(d.event, "check_run/head_sha")

C6_RerequestAsSuite ==
    \A i \in Ids :
        LET d == deliveries[i]
        IN  Rerequested(d) =>
               /\ IF RunPrs(d) = <<>>
                  THEN CountOp(d, "create_check_run") = 0
                  ELSE OneCreation(d)
               /\ CountOp(d, "modify_check_run") = 0

(***************************************************************************)
(* C6, amended.  The handling of a rerequested check_run event that passes *)
(* the guard issues exactly one create_check_run request, with             *)
(* check_run/head_sha, whether or not pull requests are associated, and no *)
(* other request; the check run it creates is a new one, and the old one   *)
(* is never modified.                                                      *)
(***************************************************************************)
C6_RerequestCreates ==
    \A i \in Ids :
        LET d == deliveries[i]
        IN  Rerequested(d) =>
               /\ OneCreation(d)
               /\ d.pc = "done" =>
                     \E k \in 1..Len(check_runs) :
                        /\ k # Get(d.event, "check_run/id")
                        /\ check_runs[k].head_sha = Get(d.event, "check_run/head_sha")

C6_Witness ==
    \E i \in Ids :
        /\ Rerequested(deliveries[i])
        /\ RunPrs(deliveries[i]) = <<>>
        /\ deliveries[i].pc = "done"


(***************************************************************************)
(* C7.  As claimed: every handling of a created check_run event that       *)
(* passes the guard ends having done exactly one of: modified the check    *)
(* run to completed, or handed the work to the lint scheduler.             *)
(***************************************************************************)
MarkedCompleted(d) ==
    \E k \in Positions(d, "modify_check_run") : d.calls[k].status = "completed"

HandedOff(d) == CountOp(d, "schedule") > 0

Position(d) ==
    CASE d.pc = "start" -> 0
      [] d.pc = "create_check_run" -> 1
      [] d.pc = "get_prs" -> 1
      [] d.pc = "get_pr_modified_files" -> 2
      [] OTHER -> 3

C7_Outcome ==
    \A i \in Ids :
        LET d == deliveries[i]
        IN  CreatedByBot(d) =>
               /\ ~(MarkedCompleted(d) /\ HandedOff(d))
               /\ (Terminated(d) /\ d.err \notin {"GatewayError", "ScheduleError"})
                     => (MarkedCompleted(d) \/ HandedOff(d))
               /\ d.pc = "get_prs" => ENABLED GetPrsReturns(i)
               /\ d.pc = "get_pr_modified_files" => ENABLED GetPrModifiedFilesReturns(i)
               /\ d.pc \in {"get_prs", "get_pr_modified_files", "done", "error"}

C7_Forward ==
    \A i \in Ids :
        LET d == deliveries[i]
        IN  CreatedByBot(d) =>
               \/ deliveries'[i] = d
               \/ Position(deliveries'[i]) > Position(d)

ChainCreators(r) ==
    { i \in Ids : deliveries[i].root = r /\ Positions(deliveries[i], "create_check_run") # {} }

BothCreate(d1, d2) ==
    \E k1 \in Positions(d1, "create_check_run"), k2 \in Positions(d2, "create_check_run") :
        d1.calls[k1].head_sha = d2.calls[k2].head_sha

BothSchedule(d1, d2) ==
    \E k1 \in Positions(d1, "schedule"), k2 \in Positions(d2, "schedule") :
        d1.calls[k1].check_run_number = d2.calls[k2].check_run_number

C9_DuplicatesHandledOnce ==
    \A i, j \in Ids :
        deliveries[j].dup = i =>
           /\ ~BothCreate(deliveries[i], deliveries[j])
           /\ ~BothSchedule(deliveries[i], deliveries[j])


(***************************************************************************)
(* C10.  A line of a comment yields a command only if the bot alias, in    *)
(* any letter case, is at the start of the line: the commands extracted    *)
(* are as many as the lines that start with the alias, and a line that     *)
(* mentions the alias further on yields none.  '@BioConda-Bot lint retry'  *)
(* yields (lint, [retry]); 'see @bioconda-bot for help' yields nothing;    *)
(* the three lines '@bioconda-bot please', '@bioconda-bot merge', 'hello   *)
(* @bioconda-bot' yield exactly (please, []) and (merge, []).              *)
(***************************************************************************)
AliasSpellings ==
    { <<"@","b","i","o","c","o","n","d","a","-","b","o","t">>,
      <<"@","b","i","o","c","o","n","d","a"," ","b","o","t">>,
      <<"@","b","i","o","c","o","n","d","a","b","o","t">> }

StartsWithAlias(line) ==
    \E a \in AliasSpellings :
        /\ Len(line) >= Len(a)
        /\ \A k \in 1..Len(a) : LowerChar(line[k]) = a[k]

WordLint   == <<"l","i","n","t">>
WordRetry  == <<"r","e","t","r","y">>
WordPlease == <<"p","l","e","a","s","e">>
WordMerge  == <<"m","e","r","g","e">>

Parsed == comment.pc \in {"dispatch", "done", "error"}

C10_AnchoredAtLineStart ==
    Parsed =>
       /\ Len(comment.commands) =
             Cardinality({ k \in 1..Len(comment.lines) : StartsWithAlias(comment.lines[k]) })
       /\ comment.lines = <<LineLintRetry>>
             => comment.commands = << <<WordLint, WordRetry>> >>
       /\ comment.lines = <<LineSeeHelp>> => comment.commands = <<>>
       /\ comment.lines = <<LinePlease, LineMerge, LineHello>>
             => /\ comment.commands = << <<WordPlease>>, <<WordMerge>> >>
                /\ comment.pc = "done"
                      => comment.dispatched = << [cmd |-> WordPlease, args |-> <<>>],
                                                 [cmd |-> WordMerge, args |-> <<>>] >>

C10_Witness ==
    /\ comment.lines = <<LinePlease, LineMerge, LineHello>>
    /\ comment.pc = "done"
    /\ Len(comment.dispatched) = 2


(***************************************************************************)
(* Vocabulary of the properties of comments.                               *)
(***************************************************************************)
\* the lines of the comment that start with the alias, in their order
RECURSIVE BotLines(_)
BotLines(lines) ==
    IF lines = <<>> THEN <<>>
    ELSE IF StartsWithAlias(Head(lines))
         THEN <<Head(lines)>> \o BotLines(Tail(lines))
         ELSE BotLines(Tail(lines))

\* the whitespace-delimited tokens of a line as its author wrote them
Tokens(line) == Split(line)

\* the tokens from the n-th on
TokensFrom(line, n) == SubSeq(Tokens(line), n, Len(Tokens(line)))

(***************************************************************************)
(* C11.  As claimed: the k-th command dispatched is that of the k-th line  *)
(* starting with the alias; its name is the second token of the line in    *)
(* lower case and its arguments are the tokens after it, in order, in the  *)
(* letter case the author wrote ('MyRecipe' is passed on as 'MyRecipe').   *)
(***************************************************************************)
C11_ArgumentsKeepCase ==
    \A k \in 1..Len(comment.dispatched) :
        LET line == BotLines(comment.lines)[k]
        IN  /\ comment.dispatched[k].cmd = Lower(Tokens(line)[2])
            /\ comment.dispatched[k].args = TokensFrom(line, 3)

(***************************************************************************)
(* C12.  The commands of a comment are dispatched in the order of their    *)
(* lines and one after the other: the k-th dispatch is that of the k-th    *)
(* line starting with the alias, at most one dispatch is in progress at    *)
(* any time (the next one starts only when all those before it have        *)
(* returned), the dispatches made are never undone, reordered or repeated, *)
(* and there are never more of them than lines starting with the alias.    *)
(***************************************************************************)
\* the dispatches started that have not returned
InProgress == Len(comment.dispatched) - comment.returned

C12_InOrder ==
    /\ Len(comment.dispatched) <= Len(BotLines(comment.lines))
    /\ \A k \in 1..Len(comment.dispatched) :
          LET line == BotLines(comment.lines)[k]
          IN  /\ comment.dispatched[k].cmd = Lower(Tokens(line)[2])
              /\ Len(comment.dispatched[k].args) = Len(Tokens(line)) - 2
    /\ InProgress \in {0, 1}
    /\ InProgress = 1 <=> comment.pc = "dispatch"

C12_OneAtATime ==
    /\ Len(comment.dispatched') <= Len(comment.dispatched) + 1
    /\ SubSeq(comment.dispatched', 1, Len(comment.dispatched)) = comment.dispatched
    /\ comment.returned' >= comment.returned
    /\ Len(comment.dispatched') > Len(comment.dispatched)
          => comment.returned' = Len(comment.dispatched)

C12_SequentialInOrder == []C12_InOrder /\ [][C12_OneAtATime]_vars

\* the third command is being dispatched, the two before it have returned
C12_Witness ==
    /\ comment.lines = <<LineLintRetry, LineMixedCase, LineMerge>>
    /\ comment.pc = "dispatch"
    /\ Len(comment.dispatched) = 3
    /\ comment.returned = 2

(***************************************************************************)
(* C13.  As claimed: the handling of a comment never ends in an error, and *)
(* when it has ended, every line starting with the alias that carries a    *)
(* command token has had its command dispatched, whatever the other lines  *)
(* of the comment are (the alias alone among them).                        *)
(***************************************************************************)
\* the lines starting with the alias that carry a command after it
CommandLines(lines) ==
    { k \in 1..Len(BotLines(lines)) : Len(Tokens(BotLines(lines)[k])) >= 2 }

Ended == comment.pc \in {"done", "error"}

C13_SiblingsDispatched ==
    /\ comment.pc # "error"
    /\ Ended => Len(comment.dispatched) = Cardinality(CommandLines(comment.lines))

(***************************************************************************)
(* C14.  When the lint scheduler does not accept the task, the handling of *)
(* the created check_run event ends in an error (that of the scheduler),   *)
(* having made the one scheduler call and no modify_check_run request: the *)
(* failure is neither dropped nor turned into a completed check run.       *)
(***************************************************************************)
ScheduleFailed(d) == d.enqueued = <<FALSE>>

C14_ScheduleFailureSurfaced ==
    \A i \in Ids :
        LET d == deliveries[i]
        IN  ScheduleFailed(d) =>
               /\ CreatedByBot(d)
               /\ d.pc = "error"
               /\ d.err = "ScheduleError"
               /\ CountOp(d, "schedule") = 1
               /\ d.calls[Len(d.calls)].op = "schedule"
               /\ CountOp(d, "modify_check_run") = 0

C14_Witness ==
    \E i \in Ids :
        LET d == deliveries[i]
        IN  /\ ScheduleFailed(d)
            /\ HasRecipesCase(d)
            /\ Terminated(d)
            /\ Len(d.files[1]) = 2

(***************************************************************************)
(* C15.  As claimed: an event that lacks a path its handler reads          *)
(* (check_suite/pull_requests for a requested or rerequested check suite,  *)
(* check_run/app/id for a check run, check_run/check_suite/pull_requests   *)
(* and check_run/head_sha for a created check run of the bot) is treated   *)
(* as inapplicable: its handling does not end in an error and makes no     *)
(* create_check_run, modify_check_run or scheduler call.                   *)
(***************************************************************************)
LacksReadPath(d) ==
    \/ /\ IsCheckSuite(d)
       /\ Has(d.event, "action")
       /\ Action(d) \in {"requested", "rerequested"}
       /\ ~Has(d.event, "check_suite/pull_requests")
    \/ /\ IsCheckRun(d)
       /\ ~Has(d.event, "check_run/app/id")
    \/ /\ CreatedByBot(d)
       /\ \/ ~Has(d.event, "check_run/check_suite/pull_requests")
          \/ ~Has(d.event, "check_run/head_sha")

C15_MalformedInapplicable ==
    \A i \in Ids :
        LET d == deliveries[i]
        IN  LacksReadPath(d) =>
               /\ d.pc # "error"
               /\ CountOp(d, "create_check_run") = 0
               /\ CountOp(d, "modify_check_run") = 0
               /\ CountOp(d, "schedule") = 0

(***************************************************************************)
(* C16.  Deliveries are isolated.  Whatever else is being handled, two     *)
(* deliveries of the same event that have had the same responses (the      *)
(* same pull request, changed files and scheduler answer, and stand at the *)
(* same point, with the same exception if any) have made the same          *)
(* requests with the same arguments: the requests of a delivery depend on  *)
(* its event and its responses alone, as when it is handled alone.  And a  *)
(* step of one handler leaves the handling of every other delivery as it   *)
(* was.                                                                    *)
(***************************************************************************)
SameInputs(d1, d2) ==
    /\ d1.event = d2.event
    /\ d1.pc = d2.pc
    /\ d1.err = d2.err
    /\ d1.pr = d2.pr
    /\ d1.files = d2.files
    /\ d1.enqueued = d2.enqueued

C16_SameRequests ==
    \A i, j \in Ids : SameInputs(deliveries[i], deliveries[j])
                         => deliveries[i].calls = deliveries[j].calls

\* at most one delivery is touched by a step, and none is taken away
C16_OneHandlerSteps ==
    /\ Len(deliveries') >= Len(deliveries)
    /\ \A i, j \in Ids :
          (deliveries'[i] # deliveries[i] /\ deliveries'[j] # deliveries[j]) => i = j
    /\ Len(deliveries') > Len(deliveries)
          => \A i \in Ids : deliveries'[i] = deliveries[i]

Extractions ==
    { [body |-> comment.seen[k].body, commands |-> comment.seen[k].commands] :
        k \in 1..Len(comment.seen) }
    \cup (IF Parsed THEN { [body |-> comment.body, commands |-> comment.commands] }
          ELSE {})

FileIs(file, text) == file # <<>> /\ ReadText(file[1]) = text

C18_WritesOnlyIfChanged ==
    docs.call # <<>> =>
       LET c == docs.call[1]
       IN  /\ c.returned = c.wrote
           /\ IF FileIs(c.before, c.content)
              THEN ~c.returned /\ docs.file = c.before
              ELSE c.returned
           /\ FileIs(docs.file, c.content)
           /\ c.previous = <<c.content>> => ~c.returned

(***************************************************************************)
(* C19.  As claimed: when the lookup of the pull request of a created      *)
(* check_run event returns nothing, the handler makes the completed,       *)
(* neutral 'PR not found' modification and returns normally: it does not   *)
(* end in an error and makes no further gateway or scheduler call.         *)
(***************************************************************************)
C19_PrNotFoundReturns ==
    \A i \in Ids :
        LET d == deliveries[i]
        IN  PrNotFoundCase(d) =>
               /\ d.pc = "done"
               /\ d.err = "none"
               /\ OneModification(d, "neutral")
               /\ d.calls[Len(d.calls)].op = "modify_check_run"
               /\ CountOp(d, "get_pr_modified_files") = 0

(***************************************************************************)
(* C20.  As claimed: a changed file is among the recipes handed to the     *)
(* scheduler if and only if it is a file named meta.yaml, in whatever      *)
(* directory, the root of the repository included; a pull request changing *)
(* recipes/foo/meta.yaml and recipes/foo/build.sh yields exactly           *)
(* [recipes/foo/meta.yaml].                                                *)
(***************************************************************************)
\* a file named meta.yaml, in a directory or at the root
IsManifestPath(path) == path = ManifestName \/ IsRecipeManifest(path)

\* the recipes the handling has handed to the scheduler
RecipeSet(d) ==
    IF CountOp(d, "schedule") = 0 THEN {}
    ELSE LET recipes == TheCall(d, "schedule").pr_info.recipes
         IN  { recipes[k] : k \in 1..Len(recipes) }

C20_RecipesAreManifests ==
    \A i \in Ids :
        LET d == deliveries[i]
        IN  (CreatedByBot(d) /\ d.files # <<>>) =>
               /\ \A k \in 1..Len(d.files[1]) :
                     d.files[1][k].filename \in RecipeSet(d)
                        <=> IsManifestPath(d.files[1][k].filename)
               /\ d.files[1] = <<[filename |-> RecipeFoo], [filename |-> BuildFoo]>>
                     => /\ CountOp(d, "schedule") = 1
                        /\ TheCall(d, "schedule").pr_info.recipes = <<RecipeFoo>>

(***************************************************************************)
(* C21.  As claimed: a line is a command line if and only if its first     *)
(* whitespace-delimited token, as a whole, is the alias in any letter case *)
(* ('@bioconda-bot', '@biocondabot', or '@bioconda' and 'bot' with the     *)
(* space between them), whether or not white space precedes it; the        *)
(* command name of such a line is the token after the alias, never a part  *)
(* of the alias.                                                           *)
(***************************************************************************)
AliasOneToken == { <<"@","b","i","o","c","o","n","d","a","-","b","o","t">>,
                   <<"@","b","i","o","c","o","n","d","a","b","o","t">> }
AliasFirstHalf  == <<"@","b","i","o","c","o","n","d","a">>
AliasSecondHalf == <<"b","o","t">>

\* how many tokens the alias takes at the start of the line: 0 when the
\* line does not start with the alias as a whole token
AliasTokens(line) ==
    LET t == Tokens(line)
    IN  IF t # <<>> /\ Lower(t[1]) \in AliasOneToken THEN 1
        ELSE IF Len(t) >= 2 /\ Lower(t[1]) = AliasFirstHalf /\ Lower(t[2]) = AliasSecondHalf
        THEN 2
        ELSE 0

\* the lines that are command lines by the rule of the first token
RECURSIVE FirstTokenLines(_)
FirstTokenLines(lines) ==
    IF lines = <<>> THEN <<>>
    ELSE IF AliasTokens(Head(lines)) > 0
         THEN <<Head(lines)>> \o FirstTokenLines(Tail(lines))
         ELSE FirstTokenLines(Tail(lines))

C21_FirstTokenRule ==
    Parsed =>
       LET expected == FirstTokenLines(comment.lines)
       IN  /\ Len(comment.commands) = Len(expected)
           /\ \A k \in 1..Len(expected) :
                 LET line == expected[k]
                     n == AliasTokens(line)
                 IN  k <= Len(comment.commands) =>
                        IF Len(Tokens(line)) > n
                        THEN /\ comment.commands[k] # <<>>
                             /\ Head(comment.commands[k]) = Lower(Tokens(line)[n + 1])
                        ELSE comment.commands[k] = <<>>

(***************************************************************************)
(* C22.  Within one delivery create_check_run, get_prs and                 *)
(* get_pr_modified_files are each asked at most once, and when one of them *)
(* fails the handling ends in that error with the failed request as its    *)
(* last: no gateway request and no scheduler call follows it.  A request   *)
(* has failed when the handling has ended with it unanswered: the pull     *)
(* request or the changed files never assigned, or no check run made for   *)
(* the create_check_run.                                                   *)
(***************************************************************************)
GatewayOps == {"create_check_run", "get_prs", "get_pr_modified_files"}

LastCall(d) == d.calls[Len(d.calls)]

\* the handling ended on a lookup that was never answered
LookupFailed(d) ==
    /\ Terminated(d)
    /\ d.calls # <<>>
    /\ \/ LastCall(d).op = "get_prs" /\ d.pr = <<>>
       \/ LastCall(d).op = "get_pr_modified_files" /\ d.files = <<>>

\* the deliveries that asked for a check run and ended normally
Creators == { i \in Ids : CountOp(deliveries[i], "create_check_run") > 0
                            /\ deliveries[i].pc = "done" }

C22_GatewayErrorsSurfaced ==
    /\ \A i \in Ids : \A op \in GatewayOps : CountOp(deliveries[i], op) <= 1
    /\ \A i \in Ids :
          LET d == deliveries[i]
          IN  (LookupFailed(d) \/ d.err = "GatewayError") =>
                 /\ d.pc = "error"
                 /\ d.err = "GatewayError"
                 /\ LastCall(d).op \in GatewayOps
                 /\ CountOp(d, "schedule") = 0
                 /\ CountOp(d, "modify_check_run") = 0
    \* a check run for every handling that asked for one and ended normally:
    \* a create_check_run that failed did not end normally
    /\ Len(check_runs) = Cardinality(Creators)

\* one handling ended on the failure of get_pr_modified_files, another on
\* the failure of create_check_run
C22_Witness ==
    \E i, j \in Ids :
        /\ LookupFailed(deliveries[i])
        /\ LastCall(deliveries[i]).op = "get_pr_modified_files"
        /\ Len(deliveries[i].calls) = 2
        /\ deliveries[j].pc = "error"
        /\ deliveries[j].calls # <<>>
        /\ LastCall(deliveries[j]).op = "create_check_run"
        /\ check_runs = <<>>

====
